---- MODULE Spec2Model ----
(***************************************************************************)
(* A state-machine model of blas_benchmark: main() (src/main.cpp), the     *)
(* configuration overlay (src/config/config_parser.cpp), BenchmarkRunner   *)
(* (src/benchmark/benchmark.cpp) and the per-operation measurement loops   *)
(* benchmark_dot/axpy/scal/gemv/gemm (src/benchmark/blas_functions.cpp)    *)
(* with Timer and flush_cache (src/utils/timer.h).                         *)
(*                                                                         *)
(* Conventions.  Time points are integers in nanoseconds.  A latency in    *)
(* milliseconds (a double in the source) is held as the integer number of  *)
(* microseconds it stands for, which is exact because Timer::elapsed_ms    *)
(* truncates to whole microseconds before dividing by 1000.0.  A mean is   *)
(* held as the fraction [num, den]; den = 0 is the 0.0/0 of an empty       *)
(* sample vector.  An optional<T> is the record [has, val].                *)
(*                                                                         *)
(* Spec is the program's control flow.  NumSpec applies the numeric        *)
(* routines (flops::*, flush_cache's sizing, the statistics and GFLOPS of  *)
(* run_single_benchmark) to boundary inputs, with std::size_t computed     *)
(* modulo 2^64 and double as IEEE-754 binary64 rounded to nearest even,    *)
(* both over naturals held as digit sequences.                             *)
(***************************************************************************)
EXTENDS Integers, Sequences, FiniteSets, TLC

(***************************************************************************)
(* Bounds of the model.                                                    *)
(***************************************************************************)
MaxCycles == 2
MaxWarmup == 1
MaxWarmupRun == 3

(***************************************************************************)
(* Program constants.                                                      *)
(***************************************************************************)
KiB == 1024
MinFlushSize == 1024 * 1024
DefaultFlushSize == 16 * 1024 * 1024
InnerCycles == 1
DefaultThreads == 1
DefaultCycles == 5
DefaultWarmup == 3
ExitSuccess == 0
ExitFailure == 1

(***************************************************************************)
(* Arithmetic of the machine types.  A std::size_t is 64 bits wide and a   *)
(* double is an IEEE-754 binary64; both are wider than the integers of the *)
(* model checker, so a natural number of any size is held as the sequence  *)
(* of its digits in base 2^15, least significant first, with no leading    *)
(* zero digit (zero is the empty sequence).                                *)
(***************************************************************************)
LimbBase == 2 ^ 15

Digit(a, j) == IF j \in DOMAIN a THEN a[j] ELSE 0

RECURSIVE BigNorm(_)
BigNorm(a) ==
  IF a = <<>> THEN a
  ELSE IF a[Len(a)] = 0 THEN BigNorm(SubSeq(a, 1, Len(a) - 1)) ELSE a

RECURSIVE BigOf(_)
BigOf(x) == IF x = 0 THEN <<>> ELSE << x % LimbBase >> \o BigOf(x \div LimbBase)

RECURSIVE BigAddFrom(_, _, _, _)
BigAddFrom(a, b, j, c) ==
  IF j > Len(a) /\ j > Len(b)
    THEN IF c = 0 THEN <<>> ELSE << c >>
    ELSE LET s == Digit(a, j) + Digit(b, j) + c
         IN << s % LimbBase >> \o BigAddFrom(a, b, j + 1, s \div LimbBase)

BigAdd(a, b) == BigAddFrom(a, b, 1, 0)

(* a - b for a >= b *)
RECURSIVE BigSubFrom(_, _, _, _)
BigSubFrom(a, b, j, c) ==
  IF j > Len(a) THEN <<>>
  ELSE LET s == Digit(a, j) - Digit(b, j) - c
       IN << s % LimbBase >> \o
          BigSubFrom(a, b, j + 1, IF s < 0 THEN 1 ELSE 0)

BigSub(a, b) == BigNorm(BigSubFrom(a, b, 1, 0))

RECURSIVE BigLessFrom(_, _, _)
BigLessFrom(a, b, j) ==
  IF j = 0 THEN FALSE
  ELSE IF a[j] # b[j] THEN a[j] < b[j] ELSE BigLessFrom(a, b, j - 1)

BigLess(a, b) ==
  IF Len(a) # Len(b) THEN Len(a) < Len(b) ELSE BigLessFrom(a, b, Len(a))

BigLeq(a, b) == ~BigLess(b, a)

(* a * d + c for 0 <= d, c < 2^15 *)
RECURSIVE BigMulSmallFrom(_, _, _, _)
BigMulSmallFrom(a, d, j, c) ==
  IF j > Len(a)
    THEN IF c = 0 THEN <<>> ELSE << c >>
    ELSE LET p == a[j] * d + c
         IN << p % LimbBase >> \o BigMulSmallFrom(a, d, j + 1, p \div LimbBase)

BigMulSmall(a, d) == BigNorm(BigMulSmallFrom(a, d, 1, 0))

RECURSIVE BigMul(_, _)
BigMul(a, b) ==
  IF a = <<>> \/ b = <<>> THEN <<>>
  ELSE BigNorm(BigAdd(BigMulSmall(a, Head(b)), << 0 >> \o BigMul(a, Tail(b))))

(* << a \div d, a % d >> for 0 < d < 2^15 *)
RECURSIVE BigDivSmallFrom(_, _, _, _)
BigDivSmallFrom(a, d, j, r) ==
  IF j = 0 THEN << <<>>, r >>
  ELSE LET n == r * LimbBase + a[j]
           rest == BigDivSmallFrom(a, d, j - 1, n % d)
       IN << Append(rest[1], n \div d), rest[2] >>

BigDivSmall(a, d) == BigNorm(BigDivSmallFrom(a, d, Len(a), 0)[1])

BigModSmall(a, d) == BigDivSmallFrom(a, d, Len(a), 0)[2]

RECURSIVE BitLen(_)
BitLen(x) == IF x = 0 THEN 0 ELSE 1 + BitLen(x \div 2)

BigBitLen(a) == IF a = <<>> THEN 0 ELSE 15 * (Len(a) - 1) + BitLen(a[Len(a)])

BigBit(a, t) == (Digit(a, (t \div 15) + 1) \div (2 ^ (t % 15))) % 2

(* a * 2^s and a \div 2^s *)
BigShl(a, s) ==
  IF a = <<>> THEN a
  ELSE [j \in 1 .. (s \div 15) |-> 0] \o BigMulSmall(a, 2 ^ (s % 15))

BigShr(a, s) ==
  IF Len(a) <= s \div 15 THEN <<>>
  ELSE BigDivSmall(SubSeq(a, (s \div 15) + 1, Len(a)), 2 ^ (s % 15))

(* a % 2^s = 0 *)
BigLowZero(a, s) ==
  /\ \A j \in 1 .. (s \div 15) : Digit(a, j) = 0
  /\ Digit(a, (s \div 15) + 1) % (2 ^ (s % 15)) = 0

(***************************************************************************)
(* std::size_t: arithmetic modulo 2^64, and the conversion of an int       *)
(* (level 2 and level 3 sizes are ints) to std::size_t.                    *)
(***************************************************************************)
SizeWrap(a) ==
  BigNorm([j \in 1 .. (IF Len(a) < 5 THEN Len(a) ELSE 5) |->
             IF j = 5 THEN a[j] % 16 ELSE a[j]])

SizeOfInt(x) ==
  IF x >= 0 THEN BigOf(x) ELSE BigSub(BigShl(BigOf(1), 64), BigOf(-x))

SizeMul(a, b) == SizeWrap(BigMul(a, b))
SizeDiv(a, d) == BigDivSmall(a, d)

(***************************************************************************)
(* namespace flops (blas_functions.h 41-72): the products are formed left  *)
(* to right in std::size_t.                                                *)
(***************************************************************************)
flops_dot(n) == SizeMul(BigOf(2), n)
flops_axpy(n) == SizeMul(BigOf(2), n)
flops_scal(n) == n
flops_gemv(m, n) == SizeMul(SizeMul(BigOf(2), m), n)
flops_gemm(m, n, kk) == SizeMul(SizeMul(SizeMul(BigOf(2), m), n), kk)

(* The flops_count argument run_level1/2/3 pass to run_single_benchmark
   (benchmark.cpp 142, 152, 162, 191, 220); size is the level's configured
   size, a std::size_t at level 1 and ints at levels 2 and 3. *)
(* Mutant of FlopsFor: dscal is counted like ddot. *)
FlopsFor_ScalAsDot(kn, size) ==
  CASE kn \in {"dot", "axpy", "scal"} -> flops_dot(size)
    [] kn = "gemv" -> flops_gemv(SizeOfInt(size[1]), SizeOfInt(size[2]))
    [] OTHER -> flops_gemm(SizeOfInt(size[1]), SizeOfInt(size[2]),
                           SizeOfInt(size[3]))

FlopsFor(kn, size) ==
  CASE kn = "dot" -> flops_dot(size)
    [] kn = "axpy" -> flops_axpy(size)
    [] kn = "scal" -> flops_scal(size)
    [] kn = "gemv" -> flops_gemv(SizeOfInt(size[1]), SizeOfInt(size[2]))
    [] OTHER -> flops_gemm(SizeOfInt(size[1]), SizeOfInt(size[2]),
                           SizeOfInt(size[3]))

Some(v) == [has |-> TRUE, val |-> v]
NoInt == [has |-> FALSE, val |-> 0]
NoSeq == [has |-> FALSE, val |-> <<>>]

(***************************************************************************)
(* BenchmarkConfig as default-constructed, and ConfigParser::get_default.  *)
(***************************************************************************)
BenchmarkConfigInit ==
  [threads |-> DefaultThreads, cycles |-> DefaultCycles,
   warmup |-> DefaultWarmup, flush_cache |-> TRUE,
   level1_size |-> NoInt, level2_size |-> NoSeq, level3_size |-> NoSeq,
   level1_functions |-> <<>>, level2_functions |-> <<>>,
   level3_functions |-> <<>>]

(* Mutant of get_default: the sizes are left unset. *)
get_default_NoSizes ==
  [BenchmarkConfigInit EXCEPT
     !.level1_functions = <<"cblas_ddot", "cblas_daxpy", "cblas_dscal">>,
     !.level2_functions = <<"cblas_dgemv">>,
     !.level3_functions = <<"cblas_dgemm">>]

get_default ==
  [BenchmarkConfigInit EXCEPT
     !.level1_size = Some(1000000),
     !.level2_size = Some(<<1024, 1024>>),
     !.level3_size = Some(<<1024, 1024, 1024>>),
     !.level1_functions = <<"cblas_ddot", "cblas_daxpy", "cblas_dscal">>,
     !.level2_functions = <<"cblas_dgemv">>,
     !.level3_functions = <<"cblas_dgemm">>]

(***************************************************************************)
(* ConfigParser::parse_string on a well-formed TOML table.  The table is   *)
(* the record [functions, defaults]; each key is an optional.  The weights *)
(* section is read by the parser and by nothing else, and is left out.     *)
(***************************************************************************)
OrElse(opt, dflt) == IF opt.has THEN opt.val ELSE dflt

parse_string(tbl) ==
  LET d == get_default
      f == tbl.functions
      t == tbl.defaults
  IN [threads |-> OrElse(t.threads, d.threads),
      warmup |-> OrElse(t.warmup, d.warmup),
      cycles |-> OrElse(t.cycles, d.cycles),
      flush_cache |-> OrElse(t.flush_cache, d.flush_cache),
      level1_size |-> IF t.level1_size.has THEN t.level1_size ELSE d.level1_size,
      level2_size |-> IF t.level2_size.has THEN t.level2_size ELSE d.level2_size,
      level3_size |-> IF t.level3_size.has THEN t.level3_size ELSE d.level3_size,
      level1_functions |-> OrElse(f.level1, d.level1_functions),
      level2_functions |-> OrElse(f.level2, d.level2_functions),
      level3_functions |-> OrElse(f.level3, d.level3_functions)]

(***************************************************************************)
(* Inputs: the command line, the configuration file, what the system-info  *)
(* collaborator reports, and how long each backend call and each eviction  *)
(* takes (a repeating sequence of durations in nanoseconds).               *)
(***************************************************************************)
ThreadChoices == {1, 4}

(* Which of -t, -c, -w appear on the command line.  The variable of an
   option that does not appear keeps its initial value (main.cpp 114-116,
   127-132). *)
Options == {"threads", "cycles", "warmup"}
Absent(argv, def) ==
  /\ "threads" \notin argv.given => argv.threads = def.threads
  /\ "cycles" \notin argv.given => argv.cycles = def.cycles
  /\ "warmup" \notin argv.given => argv.warmup = def.warmup

NoArg == [given |-> FALSE, valid |-> TRUE, val |-> <<>>]
SizeArgs ==
  { [level1 |-> NoArg, level2 |-> NoArg, level3 |-> NoArg],
    [level1 |-> [given |-> TRUE, valid |-> TRUE, val |-> <<16>>],
     level2 |-> NoArg,
     level3 |-> [given |-> TRUE, valid |-> FALSE, val |-> <<>>]] }

CommandLines ==
  { a \in [given : SUBSET Options, threads : ThreadChoices,
           cycles : -1 .. MaxCycles, warmup : -1 .. MaxWarmup,
           sizes : SizeArgs] :
      /\ Absent(a, BenchmarkConfigInit)
      (* -t 1 runs like no -t at all and is left out *)
      /\ "threads" \in a.given => a.threads # DefaultThreads }

NoFunctions == [level1 |-> NoSeq, level2 |-> NoSeq, level3 |-> NoSeq]
NoDefaults ==
  [threads |-> NoInt, warmup |-> NoInt, cycles |-> NoInt,
   flush_cache |-> [has |-> FALSE, val |-> TRUE],
   level1_size |-> NoInt, level2_size |-> NoSeq, level3_size |-> NoSeq]

Tables ==
  { [functions |-> [level1 |-> Some(<<>>), level2 |-> Some(<<>>),
                    level3 |-> Some(<<>>)],
     defaults |-> NoDefaults],
    [functions |-> NoFunctions,
     defaults |-> [NoDefaults EXCEPT !.flush_cache = Some(FALSE),
                                     !.threads = Some(2),
                                     !.cycles = Some(1),
                                     !.warmup = Some(0)]],
    [functions |-> [level1 |-> Some(<<"bogus", "cblas_ddot">>),
                    level2 |-> Some(<<"cblas_ddot", "cblas_dgemv">>),
                    level3 |-> Some(<<"CBLAS_DGEMM">>)],
     defaults |-> [NoDefaults EXCEPT !.level1_size = Some(8),
                                     !.level2_size = Some(<<2, 3>>)]],
    [functions |-> [level1 |-> Some(<<"cblas_dscal", "", "cblas_dscal">>),
                    level2 |-> NoSeq,
                    level3 |-> Some(<<"cblas_dgemm", "dgemm">>)],
     defaults |-> [NoDefaults EXCEPT !.flush_cache = Some(FALSE),
                                     !.level3_size = Some(<<2, 3, 4>>)]],
    [functions |-> [level1 |-> Some(<<"cblas_daxpy">>),
                    level2 |-> Some(<<>>),
                    level3 |-> NoSeq],
     defaults |-> [NoDefaults EXCEPT !.flush_cache = Some(FALSE),
                                     !.level1_size = Some(0),
                                     !.level3_size = Some(<<0, 3, 2>>)]] }

ConfigFiles ==
  { [exists |-> FALSE, parses |-> FALSE,
     tbl |-> [functions |-> NoFunctions, defaults |-> NoDefaults]],
    [exists |-> TRUE, parses |-> FALSE,
     tbl |-> [functions |-> NoFunctions, defaults |-> NoDefaults]] }
  \cup { [exists |-> TRUE, parses |-> TRUE, tbl |-> t] : t \in Tables }

CacheProfiles ==
  { [l1_cache |-> 32 * KiB, l2_cache |-> 256 * KiB, l3_cache |-> 8192 * KiB],
    [l1_cache |-> 32 * KiB, l2_cache |-> 256 * KiB, l3_cache |-> 736 * KiB],
    [l1_cache |-> 32 * KiB, l2_cache |-> 256 * KiB, l3_cache |-> 224 * KiB] }

DurationPatterns == { <<1500, 700, 2000, 3999, 250>> }

VARIABLES
  input,        \* argv, the configuration file, system info, durations
  config,       \* main's BenchmarkConfig, then the runner's m_config
  m_cache_size, \* BenchmarkRunner::m_cache_size
  blas_threads, \* the backend's process-wide thread count (0: never set)
  pc,           \* the position of the single thread of control
  level,        \* the level run_all is at (1..3; 4: past the last)
  idx,          \* position in the level's function list (1-based)
  i,            \* run_single_benchmark's loop counter
  times,        \* run_single_benchmark's sample vector (microseconds)
  w,            \* benchmark_*'s warmup loop counter
  k,            \* benchmark_*'s timed loop counter
  total_time,   \* benchmark_*'s total_time (microseconds)
  timer,        \* utils::Timer: [m_start, m_end] (nanoseconds)
  now,          \* the clock (nanoseconds)
  ticks,        \* backend calls and evictions so far
  report,       \* the BenchmarkReport being assembled
  output,       \* what write_output has written (<<>>: nothing)
  exitCode,     \* main's return value, once pc = "exited"
  log,          \* the observable events so far, in order
  calc          \* the numeric routine last evaluated on its own: [op, arg, out]

progVars ==
  << input, config, m_cache_size, blas_threads, pc, level, idx, i, times, w,
     k, total_time, timer, now, ticks, report, output, exitCode, log >>

vars == << progVars, calc >>

NoCalc == [op |-> "none", arg |-> <<>>, out |-> <<>>]

Ev(kind, name, phase, val, ns) ==
  [kind |-> kind, name |-> name, phase |-> phase, val |-> val, ns |-> ns]

Emit(e) == log' = Append(log, e)

Init ==
  /\ input \in [argv : CommandLines, file : ConfigFiles,
                sysinfo : CacheProfiles, durations : DurationPatterns]
  /\ config = BenchmarkConfigInit
  /\ m_cache_size = 0
  /\ blas_threads = 0
  /\ pc = "load_config"
  /\ level = 0
  /\ idx = 0
  /\ i = 0
  /\ times = <<>>
  /\ w = 0
  /\ k = 0
  /\ total_time = 0
  /\ timer = [m_start |-> 0, m_end |-> 0]
  /\ now = 0
  /\ ticks = 0
  /\ report = [level1_results |-> <<>>, level2_results |-> <<>>,
               level3_results |-> <<>>]
  /\ output = <<>>
  /\ exitCode = 0
  /\ log = <<>>
  /\ calc = NoCalc

(***************************************************************************)
(* main: load the configuration (main.cpp 175-197).                        *)
(***************************************************************************)
LoadedConfig(file) ==
  IF file.exists /\ file.parses THEN parse_string(file.tbl) ELSE get_default

LoadConfig ==
  /\ pc = "load_config"
  /\ config' = LoadedConfig(input.file)
  /\ IF input.file.exists /\ ~input.file.parses
       THEN Emit(Ev("warn_config", "", "", 0, 0))
       ELSE UNCHANGED log
  /\ pc' = "override"
  /\ UNCHANGED << calc, input, m_cache_size, blas_threads, level, idx, i, times, w,
                  k, total_time, timer, now, ticks, report, output, exitCode >>

(***************************************************************************)
(* main: overlay the command line (main.cpp 199-248).  threads, cycles and *)
(* warmup are always taken from the command-line variables; a size option  *)
(* that does not parse ends the program with status 1.                     *)
(***************************************************************************)
SizeArgsValid(a) ==
  /\ a.level1.given => a.level1.valid
  /\ a.level2.given => a.level2.valid
  /\ a.level3.given => a.level3.valid

Overlay(c, argv) ==
  [c EXCEPT
     !.threads = argv.threads,
     !.cycles = argv.cycles,
     !.warmup = argv.warmup,
     !.level1_size = IF argv.sizes.level1.given
                       THEN Some(argv.sizes.level1.val[1]) ELSE @,
     !.level2_size = IF argv.sizes.level2.given
                       THEN Some(argv.sizes.level2.val) ELSE @,
     !.level3_size = IF argv.sizes.level3.given
                       THEN Some(argv.sizes.level3.val) ELSE @]

OverrideConfig ==
  /\ pc = "override"
  /\ IF SizeArgsValid(input.argv.sizes)
       THEN /\ config' = Overlay(config, input.argv)
            /\ pc' = "validate"
            /\ UNCHANGED << exitCode, log >>
       ELSE /\ Emit(Ev("error", "invalid size", "", 0, 0))
            /\ exitCode' = ExitFailure
            /\ pc' = "exited"
            /\ UNCHANGED config
  /\ UNCHANGED << calc, input, m_cache_size, blas_threads, level, idx, i, times, w,
                  k, total_time, timer, now, ticks, report, output >>

(***************************************************************************)
(* main: "Validate at least one benchmark is configured" (main.cpp         *)
(* 250-258): only the three sizes are looked at.                           *)
(***************************************************************************)
NoSizeSpecified(c) ==
  ~c.level1_size.has /\ ~c.level2_size.has /\ ~c.level3_size.has

Validate ==
  /\ pc = "validate"
  /\ IF NoSizeSpecified(config)
       THEN /\ Emit(Ev("error", "no benchmark sizes", "", 0, 0))
            /\ exitCode' = ExitFailure
            /\ pc' = "exited"
       ELSE /\ pc' = "construct"
            /\ UNCHANGED << exitCode, log >>
  /\ UNCHANGED << calc, input, config, m_cache_size, blas_threads, level, idx, i,
                  times, w, k, total_time, timer, now, ticks, report, output >>

(***************************************************************************)
(* BenchmarkRunner::BenchmarkRunner (benchmark.cpp 25-39).                 *)
(***************************************************************************)
(* Mutant of CacheSizeFor: the floor test is off by one. *)
CacheSizeFor_FloorInclusive(info) ==
  LET sum == info.l1_cache + info.l2_cache + info.l3_cache
  IN IF sum <= MinFlushSize THEN DefaultFlushSize ELSE sum

CacheSizeFor(info) ==
  LET sum == info.l1_cache + info.l2_cache + info.l3_cache
  IN IF sum < MinFlushSize THEN DefaultFlushSize ELSE sum

ConstructRunner ==
  /\ pc = "construct"
  /\ m_cache_size' = CacheSizeFor(input.sysinfo)
  /\ Emit(Ev("runner", "", "", m_cache_size' \div (1024 * 1024), 0))
  /\ pc' = "run_all"
  /\ UNCHANGED << calc, input, config, blas_threads, level, idx, i, times, w, k,
                  total_time, timer, now, ticks, report, output, exitCode >>

(***************************************************************************)
(* BenchmarkRunner::run_all up to set_threads (benchmark.cpp 47-58).       *)
(***************************************************************************)
(* Mutant of set_threads: the default thread count is applied instead of
   the configured one. *)
set_threads_Default(n) ==
  /\ blas_threads' = DefaultThreads
  /\ Emit(Ev("set_threads", "", "", DefaultThreads, 0))

set_threads(n) ==
  /\ blas_threads' = n
  /\ Emit(Ev("set_threads", "", "", n, 0))

RunAllBegin ==
  /\ pc = "run_all"
  /\ report' = [level1_results |-> <<>>, level2_results |-> <<>>,
                level3_results |-> <<>>]
  /\ set_threads(config.threads)
  /\ level' = 1
  /\ pc' = "level_check"
  /\ UNCHANGED << calc, input, config, m_cache_size, idx, i, times, w, k,
                  total_time, timer, now, ticks, output, exitCode >>

(***************************************************************************)
(* run_all's three level tests (benchmark.cpp 60-79).                      *)
(***************************************************************************)
LevelSize(c, l) ==
  CASE l = 1 -> c.level1_size
    [] l = 2 -> c.level2_size
    [] OTHER -> c.level3_size

LevelFunctions(c, l) ==
  CASE l = 1 -> c.level1_functions
    [] l = 2 -> c.level2_functions
    [] OTHER -> c.level3_functions

LevelEnabled(c, l) == LevelSize(c, l).has /\ LevelFunctions(c, l) # <<>>

LevelEnter ==
  /\ pc = "level_check"
  /\ level \in 1 .. 3
  /\ LevelEnabled(config, level)
  /\ idx' = 1
  /\ pc' = "func_loop"
  /\ UNCHANGED << calc, input, config, m_cache_size, blas_threads, level, i, times,
                  w, k, total_time, timer, now, ticks, report, output,
                  exitCode, log >>

(* Mutant of LevelSkip: a level that is not run ends run_all. *)
LevelSkip_EndsRun ==
  /\ pc = "level_check"
  /\ level \in 1 .. 3
  /\ ~LevelEnabled(config, level)
  /\ level' = 4
  /\ UNCHANGED << calc, input, config, m_cache_size, blas_threads, pc, idx, i,
                  times, w, k, total_time, timer, now, ticks, report, output,
                  exitCode, log >>

LevelSkip ==
  /\ pc = "level_check"
  /\ level \in 1 .. 3
  /\ ~LevelEnabled(config, level)
  /\ level' = level + 1
  /\ UNCHANGED << calc, input, config, m_cache_size, blas_threads, pc, idx, i,
                  times, w, k, total_time, timer, now, ticks, report, output,
                  exitCode, log >>

RunAllReturn ==
  /\ pc = "level_check"
  /\ level = 4
  /\ pc' = "output"
  /\ UNCHANGED << calc, input, config, m_cache_size, blas_threads, level, idx, i,
                  times, w, k, total_time, timer, now, ticks, report, output,
                  exitCode, log >>

(***************************************************************************)
(* run_level1/2/3: the loop over the level's function names and the chain  *)
(* of string comparisons (benchmark.cpp 124-229).                          *)
(***************************************************************************)
(* Mutant of KernelFor: the comparison ignores case and level. *)
KernelFor_Lenient(l, name) ==
  CASE name \in {"cblas_ddot", "CBLAS_DDOT"} -> "dot"
    [] name \in {"cblas_daxpy", "CBLAS_DAXPY"} -> "axpy"
    [] name \in {"cblas_dscal", "CBLAS_DSCAL"} -> "scal"
    [] name \in {"cblas_dgemv", "CBLAS_DGEMV"} -> "gemv"
    [] name \in {"cblas_dgemm", "CBLAS_DGEMM"} -> "gemm"
    [] OTHER -> ""

KernelFor(l, name) ==
  CASE l = 1 /\ name = "cblas_ddot" -> "dot"
    [] l = 1 /\ name = "cblas_daxpy" -> "axpy"
    [] l = 1 /\ name = "cblas_dscal" -> "scal"
    [] l = 2 /\ name = "cblas_dgemv" -> "gemv"
    [] l = 3 /\ name = "cblas_dgemm" -> "gemm"
    [] OTHER -> ""

Recognized(l, name) == KernelFor(l, name) # ""

ResultName(kn) ==
  CASE kn = "dot" -> "ddot"
    [] kn = "axpy" -> "daxpy"
    [] kn = "scal" -> "dscal"
    [] kn = "gemv" -> "dgemv"
    [] kn = "gemm" -> "dgemm"
    [] OTHER -> ""

ConfigStr(c, l) ==
  IF l = 1 THEN << LevelSize(c, l).val >> ELSE LevelSize(c, l).val

func_name == LevelFunctions(config, level)[idx]
kernel == KernelFor(level, func_name)

LevelReturn ==
  /\ pc = "func_loop"
  /\ idx > Len(LevelFunctions(config, level))
  /\ level' = level + 1
  /\ pc' = "level_check"
  /\ UNCHANGED << calc, input, config, m_cache_size, blas_threads, idx, i, times,
                  w, k, total_time, timer, now, ticks, report, output,
                  exitCode, log >>

(* Mutant of DispatchUnknown: an unknown name ends the level's loop. *)
DispatchUnknown_Breaks ==
  /\ pc = "func_loop"
  /\ idx <= Len(LevelFunctions(config, level))
  /\ ~Recognized(level, func_name)
  /\ Emit(Ev("warn", func_name, "", level, 0))
  /\ idx' = Len(LevelFunctions(config, level)) + 1
  /\ UNCHANGED << calc, input, config, m_cache_size, blas_threads, pc, level, i,
                  times, w, k, total_time, timer, now, ticks, report, output,
                  exitCode >>

DispatchUnknown ==
  /\ pc = "func_loop"
  /\ idx <= Len(LevelFunctions(config, level))
  /\ ~Recognized(level, func_name)
  /\ Emit(Ev("warn", func_name, "", level, 0))
  /\ idx' = idx + 1
  /\ UNCHANGED << calc, input, config, m_cache_size, blas_threads, pc, level, i,
                  times, w, k, total_time, timer, now, ticks, report, output,
                  exitCode >>

(***************************************************************************)
(* run_single_benchmark, entry (benchmark.cpp 89-99).  times.reserve of a  *)
(* negative cycle count asks for more than max_size() elements and throws  *)
(* std::length_error.                                                      *)
(***************************************************************************)
ReserveThrows(cycles) == cycles < 0

BeginBenchmark ==
  /\ pc = "func_loop"
  /\ idx <= Len(LevelFunctions(config, level))
  /\ Recognized(level, func_name)
  /\ times' = <<>>
  /\ i' = 0
  /\ IF ReserveThrows(config.cycles)
       THEN /\ pc' = "catch"
            /\ Emit(Ev("throw", "length_error", "", 0, 0))
       ELSE /\ pc' = "cycle_loop"
            /\ Emit(Ev("begin", kernel, "", level, 0))
  /\ UNCHANGED << calc, input, config, m_cache_size, blas_threads, level, idx, w,
                  k, total_time, timer, now, ticks, report, output,
                  exitCode >>

(***************************************************************************)
(* run_single_benchmark's loop (benchmark.cpp 101-106) calls the lambda of *)
(* run_level*, which calls benchmark_<op>(sizes, m_config.warmup, 1,       *)
(* m_config.flush_cache, m_cache_size): fresh operand buffers, then the    *)
(* warmup loop, then the timed loop (blas_functions.cpp 44-253; the five   *)
(* functions differ in the backend routine they call and in nothing else). *)
(***************************************************************************)
NextNs == input.durations[(ticks % Len(input.durations)) + 1]

(* Mutant of Advance: the call returns before the work is done, so the clock
   has not moved when the next call starts. *)
Advance_ReturnsEarly ==
  /\ now' = now
  /\ ticks' = ticks + 1

Advance ==
  /\ now' = now + NextNs
  /\ ticks' = ticks + 1

flush_cache(size) ==
  /\ Emit(Ev("flush", "", "", size, NextNs))
  /\ Advance

Invoke(phase) ==
  /\ Emit(Ev("kernel", kernel, phase, 0, NextNs))
  /\ Advance

(* Mutant of Raise: the exception is caught inside run_all, which returns
   the results collected so far. *)
Raise_ReturnsPartialReport(phase) ==
  /\ Emit(Ev("raise", kernel, phase, 0, 0))
  /\ pc' = "output"

(* Mutant of Raise: the failed call is tried again. *)
Raise_Retries(phase) ==
  /\ Emit(Ev("raise", kernel, phase, 0, 0))
  /\ pc' = IF phase = "timed" THEN "timed_kernel" ELSE "warmup_kernel"

Raise(phase) ==
  /\ Emit(Ev("raise", kernel, phase, 0, 0))
  /\ pc' = "catch"

(* The warmup loop of benchmark_* (blas_functions.cpp 55): the int
   m_config.warmup has become the std::size_t parameter warmup. *)
WarmupParam(c) == SizeOfInt(c.warmup)
WarmupPending == BigLess(SizeOfInt(w), WarmupParam(config))

(* Mutant of CallBenchmark: the warmup count carries over from the
   previous cycle, so only the first cycle warms up. *)
CallBenchmark_WarmsUpOnce ==
  /\ pc = "cycle_loop"
  /\ i < config.cycles
  /\ w' = IF i = 0 THEN 0 ELSE w
  /\ pc' = "warmup_loop"
  /\ UNCHANGED << calc, input, config, m_cache_size, blas_threads, level, idx, i,
                  times, k, total_time, timer, now, ticks, report, output,
                  exitCode, log >>

CallBenchmark ==
  /\ pc = "cycle_loop"
  /\ i < config.cycles
  /\ w' = 0
  /\ pc' = "warmup_loop"
  /\ UNCHANGED << calc, input, config, m_cache_size, blas_threads, level, idx, i,
                  times, k, total_time, timer, now, ticks, report, output,
                  exitCode, log >>

WarmupFlush ==
  /\ pc = "warmup_loop"
  /\ WarmupPending
  /\ w < MaxWarmupRun
  /\ config.flush_cache
  /\ flush_cache(m_cache_size)
  /\ pc' = "warmup_kernel"
  /\ UNCHANGED << calc, input, config, m_cache_size, blas_threads, level, idx, i,
                  times, w, k, total_time, timer, report, output, exitCode >>

(* Mutant of AtWarmupKernel: the warmup loop may call the kernel without
   running the eviction first. *)
AtWarmupKernel_SkipsFlush ==
  \/ pc = "warmup_kernel"
  \/ pc = "warmup_loop" /\ WarmupPending /\ w < MaxWarmupRun

AtWarmupKernel ==
  \/ pc = "warmup_kernel"
  \/ /\ pc = "warmup_loop"
     /\ WarmupPending
     /\ w < MaxWarmupRun
     /\ ~config.flush_cache

WarmupKernel ==
  /\ AtWarmupKernel
  /\ Invoke("warmup")
  /\ w' = w + 1
  /\ pc' = "warmup_loop"
  /\ UNCHANGED << calc, input, config, m_cache_size, blas_threads, level, idx, i,
                  times, k, total_time, timer, report, output, exitCode >>

WarmupKernelRaises ==
  /\ AtWarmupKernel
  /\ Raise("warmup")
  /\ UNCHANGED << calc, input, config, m_cache_size, blas_threads, level, idx, i,
                  times, w, k, total_time, timer, now, ticks, report, output,
                  exitCode >>

WarmupDone ==
  /\ pc = "warmup_loop"
  /\ ~WarmupPending
  /\ timer' = [m_start |-> 0, m_end |-> 0]
  /\ total_time' = 0
  /\ k' = 0
  /\ pc' = "timed_loop"
  /\ UNCHANGED << calc, input, config, m_cache_size, blas_threads, level, idx, i,
                  times, w, now, ticks, report, output, exitCode, log >>

TimedFlush ==
  /\ pc = "timed_loop"
  /\ k < InnerCycles
  /\ config.flush_cache
  /\ flush_cache(m_cache_size)
  /\ pc' = "timer_start"
  /\ UNCHANGED << calc, input, config, m_cache_size, blas_threads, level, idx, i,
                  times, w, k, total_time, timer, report, output, exitCode >>

AtTimerStart ==
  \/ pc = "timer_start"
  \/ pc = "timed_loop" /\ k < InnerCycles /\ ~config.flush_cache

(* Timer::start, Timer::stop and Timer::elapsed_ms (timer.h 18-34). *)
(* Mutant of TimerStartAt: start() does not capture the clock. *)
TimerStartAt_NotCaptured(t, clock) == t

TimerStartAt(t, clock) == [t EXCEPT !.m_start = clock]
TimerStopAt(t, clock) == [t EXCEPT !.m_end = clock]
ElapsedUs(t) == (t.m_end - t.m_start) \div 1000

TimerStart ==
  /\ AtTimerStart
  /\ timer' = TimerStartAt(timer, now)
  /\ Emit(Ev("timer_start", "", "", 0, 0))
  /\ pc' = "timed_kernel"
  /\ UNCHANGED << calc, input, config, m_cache_size, blas_threads, level, idx, i,
                  times, w, k, total_time, now, ticks, report, output,
                  exitCode >>

TimedKernel ==
  /\ pc = "timed_kernel"
  /\ Invoke("timed")
  /\ pc' = "timer_stop"
  /\ UNCHANGED << calc, input, config, m_cache_size, blas_threads, level, idx, i,
                  times, w, k, total_time, timer, report, output, exitCode >>

TimedKernelRaises ==
  /\ pc = "timed_kernel"
  /\ Raise("timed")
  /\ UNCHANGED << calc, input, config, m_cache_size, blas_threads, level, idx, i,
                  times, w, k, total_time, timer, now, ticks, report, output,
                  exitCode >>

TimerStop ==
  /\ pc = "timer_stop"
  /\ timer' = TimerStopAt(timer, now)
  /\ total_time' = total_time + ElapsedUs(timer')
  /\ Emit(Ev("timer_stop", "", "", 0, 0))
  /\ k' = k + 1
  /\ pc' = "timed_loop"
  /\ UNCHANGED << calc, input, config, m_cache_size, blas_threads, level, idx, i,
                  times, w, now, ticks, report, output, exitCode >>

BenchmarkReturn ==
  /\ pc = "timed_loop"
  /\ k >= InnerCycles
  /\ times' = Append(times, total_time \div InnerCycles)
  /\ Emit(Ev("sample", kernel, "", total_time \div InnerCycles, 0))
  /\ i' = i + 1
  /\ pc' = "cycle_loop"
  /\ UNCHANGED << calc, input, config, m_cache_size, blas_threads, level, idx, w,
                  k, total_time, timer, now, ticks, report, output,
                  exitCode >>

(***************************************************************************)
(* run_single_benchmark, statistics (benchmark.cpp 108-121) and the        *)
(* push_back of the result by run_level* (169, 198, 227).  With an empty   *)
(* sample vector min_element and max_element return end(), which is        *)
(* dereferenced: undefined behaviour, here a crash or some value read,     *)
(* and the mean is 0.0 / 0.                                                *)
(***************************************************************************)
RECURSIVE SeqSum(_)
SeqSum(s) == IF s = <<>> THEN 0 ELSE Head(s) + SeqSum(Tail(s))

RECURSIVE SeqMin(_)
SeqMin(s) ==
  IF Len(s) = 1 THEN s[1]
  ELSE LET m == SeqMin(Tail(s)) IN IF m < Head(s) THEN m ELSE Head(s)

(* Mutant of SeqMax: the first element is taken for the largest. *)
SeqMax_First(s) == s[1]

RECURSIVE SeqMax(_)
SeqMax(s) ==
  IF Len(s) = 1 THEN s[1]
  ELSE LET m == SeqMax(Tail(s)) IN IF Head(s) < m THEN m ELSE Head(s)

UBReads == {0, 4000}

(* The level's size as run_level<l> hands it to flops:: (benchmark.cpp 126,
   175, 204): the std::size_t n, or the ints m, n (, k). *)
FlopsShape(c, l) ==
  IF l = 1 THEN SizeOfInt(LevelSize(c, l).val) ELSE LevelSize(c, l).val

Result(mn, mx) ==
  [function_name |-> ResultName(kernel),
   config_str |-> ConfigStr(config, level),
   threads |-> config.threads,
   flops |-> FlopsFor(kernel, FlopsShape(config, level)),
   min_time_ms |-> mn,
   max_time_ms |-> mx,
   avg_time_ms |-> [num |-> SeqSum(times), den |-> Len(times)]]

(* Mutant of PushResult: the result is put in front of the level's list. *)
PushResult_Front(r) ==
  report' =
    CASE level = 1 -> [report EXCEPT !.level1_results = << r >> \o @]
      [] level = 2 -> [report EXCEPT !.level2_results = << r >> \o @]
      [] OTHER -> [report EXCEPT !.level3_results = << r >> \o @]

PushResult(r) ==
  report' =
    CASE level = 1 -> [report EXCEPT !.level1_results = Append(@, r)]
      [] level = 2 -> [report EXCEPT !.level2_results = Append(@, r)]
      [] OTHER -> [report EXCEPT !.level3_results = Append(@, r)]

Statistics ==
  /\ pc = "cycle_loop"
  /\ i >= config.cycles
  /\ times # <<>>
  /\ PushResult(Result(SeqMin(times), SeqMax(times)))
  /\ Emit(Ev("result", kernel, "", Len(times), 0))
  /\ idx' = idx + 1
  /\ pc' = "func_loop"
  /\ UNCHANGED << calc, input, config, m_cache_size, blas_threads, level, i, times,
                  w, k, total_time, timer, now, ticks, output, exitCode >>

StatisticsOfNothing ==
  /\ pc = "cycle_loop"
  /\ i >= config.cycles
  /\ times = <<>>
  /\ \E g \in UBReads :
        PushResult(Result(g, g))
  /\ Emit(Ev("result", kernel, "", 0, 0))
  /\ idx' = idx + 1
  /\ pc' = "func_loop"
  /\ UNCHANGED << calc, input, config, m_cache_size, blas_threads, level, i, times,
                  w, k, total_time, timer, now, ticks, output, exitCode >>

StatisticsCrash ==
  /\ pc = "cycle_loop"
  /\ i >= config.cycles
  /\ times = <<>>
  /\ Emit(Ev("crash", kernel, "", 0, 0))
  /\ pc' = "crashed"
  /\ UNCHANGED << calc, input, config, m_cache_size, blas_threads, level, idx, i,
                  times, w, k, total_time, timer, now, ticks, report, output,
                  exitCode >>

(***************************************************************************)
(* main after run_all returned (main.cpp 288-294, 302), and its handler    *)
(* for what run_all or the constructor threw (main.cpp 296-300).           *)
(***************************************************************************)
Rows(r) == r.level1_results \o r.level2_results \o r.level3_results

FormatReport ==
  /\ pc = "output"
  /\ Emit(Ev("format", "", "", Len(Rows(report)), 0))
  /\ pc' = "write_output"
  /\ UNCHANGED << calc, input, config, m_cache_size, blas_threads, level, idx, i,
                  times, w, k, total_time, timer, now, ticks, report, output,
                  exitCode >>

WriteOutput ==
  /\ pc = "write_output"
  /\ output' = << Rows(report) >>
  /\ Emit(Ev("write_output", "", "", Len(Rows(report)), 0))
  /\ exitCode' = ExitSuccess
  /\ pc' = "exited"
  /\ UNCHANGED << calc, input, config, m_cache_size, blas_threads, level, idx, i,
                  times, w, k, total_time, timer, now, ticks, report >>

CatchHandler ==
  /\ pc = "catch"
  /\ Emit(Ev("error", "Benchmark failed", "", 0, 0))
  /\ exitCode' = ExitFailure
  /\ pc' = "exited"
  /\ UNCHANGED << calc, input, config, m_cache_size, blas_threads, level, idx, i,
                  times, w, k, total_time, timer, now, ticks, report,
                  output >>

Next ==
  \/ LoadConfig
  \/ OverrideConfig
  \/ Validate
  \/ ConstructRunner
  \/ RunAllBegin
  \/ LevelEnter
  \/ LevelSkip
  \/ RunAllReturn
  \/ LevelReturn
  \/ DispatchUnknown
  \/ BeginBenchmark
  \/ CallBenchmark
  \/ WarmupFlush
  \/ WarmupKernel
  \/ WarmupKernelRaises
  \/ WarmupDone
  \/ TimedFlush
  \/ TimerStart
  \/ TimedKernel
  \/ TimedKernelRaises
  \/ TimerStop
  \/ BenchmarkReturn
  \/ Statistics
  \/ StatisticsOfNothing
  \/ StatisticsCrash
  \/ FormatReport
  \/ WriteOutput
  \/ CatchHandler

Spec == Init /\ [][Next]_vars

(***************************************************************************)
(* Reading the event log.                                                  *)
(***************************************************************************)
At(kind) == { j \in DOMAIN log : log[j].kind = kind }
Kernels == At("kernel")
WarmupKernels == { j \in Kernels : log[j].phase = "warmup" }
TimedKernels == { j \in Kernels : log[j].phase = "timed" }
Happened(kind) == At(kind) # {}

(* The last event of the given kind before position j (0: none). *)
LastBefore(kind, j) ==
  LET before == { p \in At(kind) : p < j }
  IN IF before = {} THEN 0
     ELSE CHOOSE p \in before : \A q \in before : q <= p

(***************************************************************************)
(* C1.  One run of a recognized operation (from run_single_benchmark's     *)
(* entry to its result) with warmup W >= 0 and cycles C >= 1 invokes the   *)
(* kernel exactly W times untimed and then exactly C times timed: W + C    *)
(* invocations, every warmup invocation before the first timed one.        *)
(***************************************************************************)
C1_WarmupThenTimed ==
  \A r \in At("result") :
    (config.warmup >= 0 /\ config.cycles >= 1) =>
      LET b == LastBefore("begin", r)
          ws == { j \in WarmupKernels : b < j /\ j < r }
          ts == { j \in TimedKernels : b < j /\ j < r }
      IN /\ Cardinality(ws) = config.warmup
         /\ Cardinality(ts) = config.cycles
         /\ \A a \in ws, t \in ts : a < t

(***************************************************************************)
(* C2.  With the cache-flush flag set, every kernel invocation (warmup or  *)
(* timed, of any of the five operations) is preceded by exactly one        *)
(* eviction since the previous kernel invocation, run with the runner's    *)
(* eviction size; with the flag clear, no eviction ever runs.              *)
(***************************************************************************)
C2_EvictionBeforeEveryKernel ==
  /\ \A j \in Kernels :
       config.flush_cache =>
         LET prev == LastBefore("kernel", j)
             fl == { p \in At("flush") : prev < p /\ p < j }
         IN /\ Cardinality(fl) = 1
            /\ \A p \in fl : log[p].val = m_cache_size
  /\ ~config.flush_cache => ~Happened("flush")

C2_Witness ==
  /\ config.flush_cache
  /\ pc = "exited"
  /\ \A op \in {"dot", "axpy", "scal", "gemv", "gemm"} :
       /\ \E j \in WarmupKernels : log[j].name = op
       /\ \E j \in TimedKernels : log[j].name = op

(***************************************************************************)
(* C3.  No eviction runs inside a timed interval: timer.start is followed  *)
(* by exactly one kernel invocation and then timer.stop, and the sample    *)
(* recorded for the cycle is that invocation's duration (in whole          *)
(* microseconds), free of eviction and warmup time.                        *)
(***************************************************************************)
C3_TimedIntervalIsOneKernel ==
  /\ \A j \in At("timer_start") :
       /\ j + 1 <= Len(log) =>
            log[j + 1].kind \in {"kernel", "raise"}
            /\ log[j + 1].phase = "timed"
       /\ j + 2 <= Len(log) /\ log[j + 1].kind = "kernel" =>
            log[j + 2].kind = "timer_stop"
       /\ j + 3 <= Len(log) /\ log[j + 1].kind = "kernel" =>
            /\ log[j + 3].kind = "sample"
            /\ log[j + 3].val = log[j + 1].ns \div 1000
  /\ \A j \in TimedKernels : j > 1 /\ log[j - 1].kind = "timer_start"
  /\ \A j \in At("timer_stop") : j > 2 /\ log[j - 2].kind = "timer_start"
  /\ \A j \in At("sample") : j > 1 /\ log[j - 1].kind = "timer_stop"
  /\ \A j \in DOMAIN times :
       \E s \in At("sample") : log[s].val = times[j]

C3_Witness ==
  /\ config.flush_cache
  /\ config.warmup >= 1
  /\ Len(times) >= 2
  /\ times[1] # times[2]
  /\ \E s \in At("sample") :
       /\ s > 6
       /\ log[s - 4].kind = "flush" /\ log[s - 4].ns > 0
       /\ log[s - 5].kind = "kernel" /\ log[s - 5].phase = "warmup"
       /\ log[s - 5].ns > 0

(***************************************************************************)
(* C4.  In every run the backend's thread count is set exactly once, to    *)
(* the configured thread count, before the first kernel invocation, and    *)
(* never again.                                                            *)
(***************************************************************************)
C4_ThreadsSetOnceBeforeKernels ==
  /\ Cardinality(At("set_threads")) <= 1
  /\ \A j \in Kernels :
       \E p \in At("set_threads") : p < j /\ log[p].val = config.threads
  /\ Happened("kernel") => blas_threads = config.threads
  /\ pc \in {"output", "write_output"} =>
       Cardinality(At("set_threads")) = 1

C4_Witness ==
  /\ pc = "exited"
  /\ exitCode = 0
  /\ config.threads = 4
  /\ \E j \in Kernels : log[j].name = "gemm"
  /\ \E j \in Kernels : log[j].name = "dot"
  /\ Cardinality(At("set_threads")) = 1

(***************************************************************************)
(* C5.  An unrecognized operation name is not fatal: at every level the    *)
(* entries processed so far have produced exactly one result per           *)
(* recognized entry, in order, none for an unrecognized entry, and one     *)
(* warning per unrecognized entry; once the level is over every entry has  *)
(* been processed, so the entries after an unrecognized one were run.      *)
(***************************************************************************)
RecognizedNames(l) ==
  CASE l = 1 -> {"cblas_ddot", "cblas_daxpy", "cblas_dscal"}
    [] l = 2 -> {"cblas_dgemv"}
    [] OTHER -> {"cblas_dgemm"}

ReportedName(n) ==
  CASE n = "cblas_ddot" -> "ddot"
    [] n = "cblas_daxpy" -> "daxpy"
    [] n = "cblas_dscal" -> "dscal"
    [] n = "cblas_dgemv" -> "dgemv"
    [] n = "cblas_dgemm" -> "dgemm"
    [] OTHER -> "?"

LevelResults(l) ==
  CASE l = 1 -> report.level1_results
    [] l = 2 -> report.level2_results
    [] OTHER -> report.level3_results

LevelRan(l) ==
  LevelSize(config, l).has /\ LevelFunctions(config, l) # <<>>

(* How many entries of level l's list the loop of run_level<l> is past. *)
Processed(l) ==
  IF level > l
    THEN IF LevelRan(l) THEN Len(LevelFunctions(config, l)) ELSE 0
    ELSE IF level = l /\ pc # "level_check" THEN idx - 1 ELSE 0

WarnedNames(l) ==
  LET ws == SelectSeq(log, LAMBDA e : e.kind = "warn" /\ e.val = l)
  IN [j \in DOMAIN ws |-> ws[j].name]

C5_UnknownNamesAreSkipped ==
  \A l \in 1 .. 3 :
    LET done == SubSeq(LevelFunctions(config, l), 1, Processed(l))
        rec == SelectSeq(done, LAMBDA n : n \in RecognizedNames(l))
        unk == SelectSeq(done, LAMBDA n : n \notin RecognizedNames(l))
        res == LevelResults(l)
    IN /\ Len(res) = Len(rec)
       /\ \A j \in DOMAIN res : res[j].function_name = ReportedName(rec[j])
       /\ WarnedNames(l) = unk

C5_Witness ==
  /\ pc = "exited"
  /\ exitCode = 0
  /\ config.cycles >= 1
  /\ config.level1_functions = <<"bogus", "cblas_ddot">>
  /\ Len(report.level1_results) = 1
  /\ WarnedNames(1) = <<"bogus">>
  /\ Len(report.level2_results) = 1
  /\ WarnedNames(2) = <<"cblas_ddot">>
  /\ report.level3_results = <<>>
  /\ WarnedNames(3) = <<"CBLAS_DGEMM">>

(***************************************************************************)
(* C6.  A configuration with cycles = 0 is rejected before any             *)
(* measurement: the statistics step is never reached with an empty sample  *)
(* vector, and a run configured with zero cycles does not end in success.  *)
(***************************************************************************)
C6_ZeroCyclesRejected ==
  /\ ~(pc = "cycle_loop" /\ i >= config.cycles /\ times = <<>>)
  /\ input.argv.cycles = 0 => ~Happened("begin")
  /\ input.argv.cycles = 0 /\ pc = "exited" => exitCode # 0

(***************************************************************************)
(* C7.  If no level has both a size and a non-empty operation list, the    *)
(* program ends with a non-zero status and an error report, before any     *)
(* measurement: no kernel invocation and no report written.                *)
(***************************************************************************)
NoLevelConfigured ==
  \A l \in 1 .. 3 :
    ~(LevelSize(config, l).has /\ LevelFunctions(config, l) # <<>>)

C7_NoLevelIsFatal ==
  (pc = "exited" /\ NoLevelConfigured) =>
    /\ exitCode # 0
    /\ Happened("error")
    /\ ~Happened("kernel")
    /\ ~Happened("write_output")
    /\ output = <<>>

(***************************************************************************)
(* C8.  Once a kernel invocation has raised, control is in main's handler  *)
(* or the program has ended with a non-zero status; the report is never    *)
(* formatted or written, whatever had been measured before.                *)
(***************************************************************************)
C8_RaiseIsFatalAndUnreported ==
  Happened("raise") =>
    /\ pc \in {"catch", "exited"}
    /\ pc = "exited" => exitCode # 0 /\ Happened("error")
    /\ ~Happened("format")
    /\ ~Happened("write_output")
    /\ output = <<>>

C8_Witness ==
  /\ Happened("raise")
  /\ pc = "exited"
  /\ Len(report.level1_results) = 3
  /\ Len(report.level2_results) = 1
  /\ \E j \in At("raise") : log[j].name = "gemm" /\ log[j].phase = "timed"

(***************************************************************************)
(* C9.  No retry: after a kernel invocation has raised there is no further *)
(* kernel invocation, eviction, timer operation, sample or result in the   *)
(* run.                                                                    *)
(***************************************************************************)
C9_NothingRunsAfterRaise ==
  \A a \in At("raise") :
    /\ \A b \in DOMAIN log :
         a < b => log[b].kind \notin {"kernel", "flush", "timer_start",
                                     "timer_stop", "sample", "result",
                                     "begin", "raise", "set_threads"}
    /\ Cardinality(At("sample")) =
         Cardinality({ s \in At("sample") : s < a })
    /\ pc \notin {"warmup_loop", "warmup_kernel", "timed_loop", "timer_start",
                  "timed_kernel", "timer_stop", "cycle_loop", "func_loop",
                  "level_check"}

C9_Witness ==
  /\ pc = "exited"
  /\ \E a \in At("raise") :
       /\ log[a].phase = "warmup"
       /\ log[a].name = "axpy"
       /\ a < Len(log)
       /\ \E s \in At("sample") : s < a
  /\ config.cycles = 2

(***************************************************************************)
(* C10.  A runner's eviction size is L1 + L2 + L3 as reported when that    *)
(* sum is at least 1 MiB, and 16 MiB when the sum is below 1 MiB; it is    *)
(* never below 1 MiB, and it is the size every eviction runs with.         *)
(***************************************************************************)
ReportedCacheSum ==
  input.sysinfo.l1_cache + input.sysinfo.l2_cache + input.sysinfo.l3_cache

C10_EffectiveEvictionSize ==
  Happened("runner") =>
    /\ ReportedCacheSum >= 1048576 => m_cache_size = ReportedCacheSum
    /\ ReportedCacheSum < 1048576 => m_cache_size = 16777216
    /\ m_cache_size >= 1048576
    /\ \A j \in At("flush") : log[j].val = m_cache_size

C10_Witness ==
  /\ ReportedCacheSum = 524288
  /\ m_cache_size = 16777216
  /\ \E j \in At("flush") : log[j].val = 16777216

(***************************************************************************)
(* flush_cache (timer.h 57-75): the number of doubles in the buffer, and   *)
(* the loop's accesses to it in program order.                             *)
(***************************************************************************)
FlushMultiplier == 4
SizeofDouble == 8

flush_buffer_size(cache_size_bytes) ==
  SizeDiv(SizeMul(cache_size_bytes, BigOf(FlushMultiplier)), SizeofDouble)

flush_accesses(buffer_size) ==
  [j \in 1 .. 2 * buffer_size |->
     [op |-> IF j % 2 = 1 THEN "read" ELSE "write", at |-> (j - 1) \div 2]]

(***************************************************************************)
(* The numeric routines on their own.  The program's control flow (Spec)   *)
(* reaches them with the few sizes and sample vectors its inputs give; the *)
(* specification below applies each routine to arguments drawn from sets   *)
(* that hold the boundary values of its argument types, and records the    *)
(* one call of a behaviour in calc.  The program's own variables stay as    *)
(* they start.                                                             *)
(***************************************************************************)
MaxFlushBytes == 24
MaxTraced == 16

(* --level1 is read with std::stoull: any std::size_t. *)
Level1Sizes ==
  { BigOf(0), BigOf(1), BigOf(16), BigOf(1000000), BigShl(BigOf(1), 31),
    BigAdd(BigShl(BigOf(1), 32), BigOf(5)), BigShl(BigOf(1), 62),
    BigSub(BigShl(BigOf(1), 63), BigOf(1)), BigShl(BigOf(1), 63),
    SizeOfInt(-1) }

(* --level2, --level3 and the level2_*, level3_* keys are ints. *)
Level2Sizes ==
  { << 0, 7 >>, << 2, 3 >>, << 1024, 1024 >>, << 46341, 46341 >>,
    << 2147483647, 2147483647 >>, << -1, 2 >> }

Level3Sizes ==
  { << 2, 3, 4 >>, << 4, 3, 2 >>, << 0, 5, 5 >>, << 1024, 1024, 1024 >>,
    << -1, -1, -1 >>,
    << 1291, 1291, 1291 >>, << 2097152, 2097152, 2097152 >>,
    << 2147483647, 2147483647, 2147483647 >>, << 1, -1, 1 >> }

FlopsCalls ==
  { << kn, n >> : kn \in {"dot", "axpy", "scal"}, n \in Level1Sizes }
  \cup { << "gemv", s >> : s \in Level2Sizes }
  \cup { << "gemm", s >> : s \in Level3Sizes }

FlushSizes ==
  { BigOf(s) : s \in 0 .. MaxFlushBytes }
  \cup { BigOf(MinFlushSize), BigOf(DefaultFlushSize), BigOf(8480 * KiB),
         BigShl(BigOf(1), 62), SizeOfInt(-1) }

NumInit ==
  /\ Init
  /\ input.argv = [given |-> {"cycles", "warmup"},
                   threads |-> 1, cycles |-> 1, warmup |-> 0,
                   sizes |-> [level1 |-> NoArg, level2 |-> NoArg,
                              level3 |-> NoArg]]
  /\ ~input.file.exists
  /\ input.sysinfo.l3_cache = 8192 * KiB

CalcFlops ==
  /\ calc = NoCalc
  /\ \E c \in FlopsCalls :
       calc' = [op |-> "flops", arg |-> c, out |-> FlopsFor(c[1], c[2])]
  /\ UNCHANGED progVars

CalcFlushCache ==
  /\ calc = NoCalc
  /\ \E s \in FlushSizes :
       LET n == flush_buffer_size(s)
           traced == BigLeq(n, BigOf(MaxTraced))
       IN calc' = [op |-> "flush_cache", arg |-> s,
                   out |-> [buffer_size |-> n, traced |-> traced,
                            accesses |-> IF traced
                                           THEN flush_accesses(Digit(n, 1))
                                           ELSE <<>>]]
  /\ UNCHANGED progVars

C12_MatrixFlopsAreTheProduct ==
  calc.op = "flops" /\ calc.arg[1] \in {"gemv", "gemm"} =>
    LET s == calc.arg[2]
    IN (\A j \in DOMAIN s : s[j] >= 0) =>
         calc.out =
           IF calc.arg[1] = "gemv"
             THEN BigMul(BigMul(BigOf(2), BigOf(s[1])), BigOf(s[2]))
             ELSE BigMul(BigMul(BigMul(BigOf(2), BigOf(s[1])), BigOf(s[2])),
                         BigOf(s[3]))

(***************************************************************************)
(* C13.  For all N >= 0, dot(N) = axpy(N) = 2 * N and scal(N) = N.         *)
(***************************************************************************)
C13_VectorFlops ==
  calc.op = "flops" =>
    /\ calc.arg[1] \in {"dot", "axpy"} =>
         calc.out = BigMul(BigOf(2), calc.arg[2])
    /\ calc.arg[1] = "scal" => calc.out = calc.arg[2]

(***************************************************************************)
(* double: IEEE-754 binary64 with round-to-nearest, ties-to-even.  A       *)
(* finite value is m * 2^e with 2^52 <= m < 2^53, or m = 0 for 0.0; no     *)
(* negative value arises in the program.  The exponent is not limited:     *)
(* every value formed here lies between 2^-80 and 2^80, far from the       *)
(* subnormal and overflow thresholds.                                      *)
(***************************************************************************)
DZero == [cls |-> "fin", m |-> <<>>, e |-> 0]
DInf == [cls |-> "inf", m |-> <<>>, e |-> 0]
DNaN == [cls |-> "nan", m |-> <<>>, e |-> 0]

IsZero(x) == x.cls = "fin" /\ x.m = <<>>

(* The double nearest to mant * 2^ex. *)
RoundToDouble(mant, ex) ==
  LET n == BigBitLen(mant)
      s == n - 53
  IN IF n = 0 THEN DZero
     ELSE IF n <= 53
       THEN [cls |-> "fin", m |-> BigShl(mant, 53 - n), e |-> ex - (53 - n)]
       ELSE LET q == BigShr(mant, s)
                up == /\ BigBit(mant, s - 1) = 1
                      /\ \/ ~BigLowZero(mant, s - 1)
                         \/ BigBit(q, 0) = 1
                q2 == IF up THEN BigAdd(q, BigOf(1)) ELSE q
            IN IF BigBitLen(q2) = 54
                 THEN [cls |-> "fin", m |-> BigShr(q2, 1), e |-> ex + s + 1]
                 ELSE [cls |-> "fin", m |-> q2, e |-> ex + s]

(* static_cast<double> of an int, a count of microseconds, a std::size_t *)
DoubleOf(x) == RoundToDouble(BigOf(x), 0)
DoubleOfSize(a) == RoundToDouble(a, 0)

DAdd(x, y) ==
  IF x.cls = "nan" \/ y.cls = "nan" THEN DNaN
  ELSE IF x.cls = "inf" \/ y.cls = "inf" THEN DInf
  ELSE IF IsZero(x) THEN y
  ELSE IF IsZero(y) THEN x
  ELSE IF x.e - y.e > 64 THEN x
  ELSE IF y.e - x.e > 64 THEN y
  ELSE LET lo == IF x.e < y.e THEN x.e ELSE y.e
       IN RoundToDouble(BigAdd(BigShl(x.m, x.e - lo), BigShl(y.m, y.e - lo)),
                        lo)

DMul(x, y) ==
  IF x.cls = "nan" \/ y.cls = "nan" THEN DNaN
  ELSE IF x.cls = "inf" \/ y.cls = "inf"
    THEN IF IsZero(x) \/ IsZero(y) THEN DNaN ELSE DInf
  ELSE IF IsZero(x) \/ IsZero(y) THEN DZero
  ELSE RoundToDouble(BigMul(x.m, y.m), x.e + y.e)

(* t more quotient bits of rem / den, for qr = << quotient, rem >> and
   rem < den; a zero remainder leaves only zero bits. *)
RECURSIVE DivBits(_, _, _)
DivBits(qr, den, t) ==
  IF t = 0 \/ qr[2] = <<>> THEN << BigShl(qr[1], t), qr[2] >>
  ELSE LET r2 == BigAdd(qr[2], qr[2])
           b == BigLeq(den, r2)
       IN DivBits(<< BigAdd(BigAdd(qr[1], qr[1]), IF b THEN << 1 >> ELSE <<>>),
                     IF b THEN BigSub(r2, den) ELSE r2 >>,
                  den, t - 1)

DDiv(x, y) ==
  IF x.cls = "nan" \/ y.cls = "nan" THEN DNaN
  ELSE IF x.cls = "inf" THEN (IF y.cls = "inf" THEN DNaN ELSE DInf)
  ELSE IF y.cls = "inf" THEN DZero
  ELSE IF IsZero(y) THEN (IF IsZero(x) THEN DNaN ELSE DInf)
  ELSE IF IsZero(x) THEN DZero
  ELSE LET b == BigLeq(y.m, x.m)
           qr == DivBits(<< IF b THEN << 1 >> ELSE <<>>,
                            IF b THEN BigSub(x.m, y.m) ELSE x.m >>, y.m, 55)
           sticky == IF qr[2] = <<>> THEN <<>> ELSE << 1 >>
       IN RoundToDouble(BigAdd(BigAdd(qr[1], qr[1]), sticky),
                        x.e - y.e - 56)

(* operator< on doubles *)
DLess(x, y) ==
  IF x.cls = "nan" \/ y.cls = "nan" THEN FALSE
  ELSE IF x.cls = "inf" THEN FALSE
  ELSE IF y.cls = "inf" THEN TRUE
  ELSE IF IsZero(y) THEN FALSE
  ELSE IF IsZero(x) THEN TRUE
  ELSE x.e < y.e \/ (x.e = y.e /\ BigLess(x.m, y.m))

DLeq(x, y) == x = y \/ DLess(x, y)

(***************************************************************************)
(* The arithmetic from one timed call to the BenchmarkResult:              *)
(* Timer::elapsed_ms (timer.h 30-34), benchmark_*'s total_time and return  *)
(* value (blas_functions.cpp 65-83, called with cycles = 1), and the       *)
(* statistics and GFLOPS of run_single_benchmark (benchmark.cpp 108-116).  *)
(* A sample is given as the whole number of microseconds the timer         *)
(* counted, as in the variable times.                                      *)
(***************************************************************************)
elapsed_ms(us) == DDiv(DoubleOf(us), DoubleOf(1000))

benchmark_return(us) ==
  DDiv(DAdd(DZero, elapsed_ms(us)), DoubleOfSize(BigOf(InnerCycles)))

RECURSIVE accumulate(_, _)
accumulate(ts, init) ==
  IF ts = <<>> THEN init ELSE accumulate(Tail(ts), DAdd(init, Head(ts)))

(* std::min_element and std::max_element: the position of the first
   smallest and of the first largest element of a non-empty sequence. *)
RECURSIVE MinFrom(_, _, _)
MinFrom(ts, j, best) ==
  IF j > Len(ts) THEN best
  ELSE MinFrom(ts, j + 1, IF DLess(ts[j], ts[best]) THEN j ELSE best)

RECURSIVE MaxFrom(_, _, _)
MaxFrom(ts, j, best) ==
  IF j > Len(ts) THEN best
  ELSE MaxFrom(ts, j + 1, IF DLess(ts[best], ts[j]) THEN j ELSE best)

min_element(ts) == MinFrom(ts, 2, 1)
max_element(ts) == MaxFrom(ts, 2, 1)

(* Mutant of Throughput: the latency is not converted to seconds. *)
Throughput_PerMillisecond(flops_count, avg_time_ms) ==
  DDiv(DoubleOfSize(flops_count), DMul(avg_time_ms, DoubleOf(1000000000)))

(* Mutant of Throughput: the time multiplies instead of dividing. *)
Throughput_TimesLatency(flops_count, avg_time_ms) ==
  DMul(DoubleOfSize(flops_count),
       DDiv(DDiv(avg_time_ms, DoubleOf(1000)), DoubleOf(1000000000)))

Throughput(flops_count, avg_time_ms) ==
  LET time_sec == DDiv(avg_time_ms, DoubleOf(1000))
  IN DDiv(DoubleOfSize(flops_count), DMul(time_sec, DoubleOf(1000000000)))

AverageOf(ts) == DDiv(accumulate(ts, DZero), DoubleOfSize(BigOf(Len(ts))))

(* The vector times after the loop of run_single_benchmark, for samples of
   the given whole numbers of microseconds. *)
TimesOf(samples_us) ==
  [j \in DOMAIN samples_us |-> benchmark_return(samples_us[j])]

BenchmarkResultOf(ts, flops_count) ==
  [flops |-> flops_count,
   min_time_ms |-> ts[min_element(ts)],
   max_time_ms |-> ts[max_element(ts)],
   avg_time_ms |-> AverageOf(ts),
   gflops |-> Throughput(flops_count, AverageOf(ts))]

(***************************************************************************)
(* The statistics on their own: sample vectors as the timer can count      *)
(* them (whole microseconds), with the FLOP count of the default level 1   *)
(* and level 3 sizes.                                                      *)
(***************************************************************************)
MaxSamples == 3

SampleValues == {100, 700, 1000, 3999}

SampleVectors ==
  UNION { [1 .. n -> SampleValues] : n \in 1 .. MaxSamples }
  \cup { << 0 >>, << 0, 250 >>, << 1000, 2000, 3000, 4000, 5000 >> }

StatisticsCalls ==
  { [us |-> s, times |-> TimesOf(s), kernel |-> c[1], size |-> c[2]] :
      s \in SampleVectors,
      c \in { << "dot", BigOf(1000000) >>,
              << "gemm", << 1024, 1024, 1024 >> >> } }

CalcStatistics ==
  /\ calc = NoCalc
  /\ \E c \in StatisticsCalls :
       calc' = [op |-> "statistics", arg |-> c,
                out |-> BenchmarkResultOf(c.times, FlopsFor(c.kernel, c.size))]
  /\ UNCHANGED progVars

(* Two runs' average latencies and one FLOP count. *)
LatencyVectors ==
  UNION { [1 .. n -> {700, 1000, 3999}] : n \in 1 .. 3 } \cup { << 0 >> }

AverageLatencies == { AverageOf(TimesOf(s)) : s \in LatencyVectors }

FlopCounts == { BigOf(0), BigOf(2000000), BigShl(BigOf(1), 31) }

CalcThroughput ==
  /\ calc = NoCalc
  /\ \E f \in FlopCounts, a \in AverageLatencies, b \in AverageLatencies :
       calc' = [op |-> "throughput", arg |-> << f, a, b >>,
                out |-> << Throughput(f, a), Throughput(f, b) >>]
  /\ UNCHANGED progVars

(***************************************************************************)
(* One call of benchmark_<op> up to its first backend call                 *)
(* (blas_functions.cpp 44-61, 86-101, 129-140, 163-181, 206-228): the      *)
(* operand vectors it allocates, in order, and the arguments the cblas     *)
(* routine receives from BlasWrapper (blas_functions.h 86-168).  The sizes *)
(* arrive as std::size_t; BlasWrapper and the leading dimensions narrow    *)
(* them with static_cast<int>, which keeps the low 32 bits.                *)
(***************************************************************************)
IntCast(a) ==
  LET lo == Digit(a, 1) + Digit(a, 2) * LimbBase
      hi == Digit(a, 3) % 4
  IN IF hi < 2 THEN hi * (2 ^ 30) + lo ELSE (hi - 4) * (2 ^ 30) + lo

(* std::vector<double>::max_size(): PTRDIFF_MAX / sizeof(double). *)
MaxVectorSize == BigSub(BigShl(BigOf(1), 60), BigOf(1))

dot_buffers(n) == << n, n >>
axpy_buffers(n) == << n, n >>
scal_buffers(n) == << n >>
gemv_buffers(m, n) == << SizeMul(m, n), n, m >>
gemm_buffers(m, n, kk) == << SizeMul(m, kk), SizeMul(kk, n), SizeMul(m, n) >>

vector_args(n) == [n |-> IntCast(n), incx |-> 1, incy |-> 1]
scal_args(n) == [n |-> IntCast(n), incx |-> 1]

gemv_args(m, n) ==
  [order |-> "CblasRowMajor", trans |-> "CblasNoTrans",
   m |-> IntCast(m), n |-> IntCast(n), lda |-> IntCast(n),
   incx |-> 1, incy |-> 1]

(* Mutant of gemm_args: A is given B's leading dimension. *)
gemm_args_LdaIsN(m, n, kk) ==
  [order |-> "CblasRowMajor", transa |-> "CblasNoTrans",
   transb |-> "CblasNoTrans",
   m |-> IntCast(m), n |-> IntCast(n), k |-> IntCast(kk),
   lda |-> IntCast(n), ldb |-> IntCast(n), ldc |-> IntCast(n)]

gemm_args(m, n, kk) ==
  [order |-> "CblasRowMajor", transa |-> "CblasNoTrans",
   transb |-> "CblasNoTrans",
   m |-> IntCast(m), n |-> IntCast(n), k |-> IntCast(kk),
   lda |-> IntCast(kk), ldb |-> IntCast(n), ldc |-> IntCast(n)]

(* size is the level's configured size as in FlopsFor: the ints of levels 2
   and 3 become std::size_t in the call of benchmark_gemv / benchmark_gemm
   (benchmark.cpp 187, 216). *)
BuffersFor(kn, size) ==
  CASE kn = "dot" -> dot_buffers(size)
    [] kn = "axpy" -> axpy_buffers(size)
    [] kn = "scal" -> scal_buffers(size)
    [] kn = "gemv" -> gemv_buffers(SizeOfInt(size[1]), SizeOfInt(size[2]))
    [] OTHER -> gemm_buffers(SizeOfInt(size[1]), SizeOfInt(size[2]),
                             SizeOfInt(size[3]))

ArgsFor(kn, size) ==
  CASE kn \in {"dot", "axpy"} -> vector_args(size)
    [] kn = "scal" -> scal_args(size)
    [] kn = "gemv" -> gemv_args(SizeOfInt(size[1]), SizeOfInt(size[2]))
    [] OTHER -> gemm_args(SizeOfInt(size[1]), SizeOfInt(size[2]),
                          SizeOfInt(size[3]))

(* generate_random_data (blas_functions.cpp 20-22): a vector longer than
   max_size() throws std::length_error; any other may find no memory. *)
benchmark_call(kn, size, memory) ==
  LET bufs == BuffersFor(kn, size)
  IN IF \E j \in DOMAIN bufs : BigLess(MaxVectorSize, bufs[j])
       THEN [called |-> FALSE, throws |-> "length_error",
             buffers |-> <<>>, args |-> <<>>]
       ELSE IF ~memory
         THEN [called |-> FALSE, throws |-> "bad_alloc",
               buffers |-> <<>>, args |-> <<>>]
         ELSE [called |-> TRUE, throws |-> "",
               buffers |-> bufs, args |-> ArgsFor(kn, size)]

CalcBackendCall ==
  /\ calc = NoCalc
  /\ \E c \in FlopsCalls, memory \in BOOLEAN :
       calc' = [op |-> "backend_call", arg |-> c,
                out |-> benchmark_call(c[1], c[2], memory)]
  /\ UNCHANGED progVars

NumNext ==
  \/ CalcFlops
  \/ CalcFlushCache
  \/ CalcStatistics
  \/ CalcThroughput
  \/ CalcBackendCall

NumSpec == NumInit /\ [][NumNext]_vars

(***************************************************************************)
(* C14.  For every non-empty sample sequence the result has                *)
(* min_time_ms <= avg_time_ms <= max_time_ms, and avg_time_ms is the sum   *)
(* of the samples divided by their number (to within the rounding of the   *)
(* additions and of the division: a relative 2^-50).                       *)
(***************************************************************************)
RECURSIVE BigSum(_)
BigSum(as) == IF as = <<>> THEN <<>> ELSE BigAdd(Head(as), BigSum(Tail(as)))

(* |n * avg - (ts[1] + ... + ts[n])| <= 2^-50 * n * avg, exactly. *)
IsMeanOf(avg, ts) ==
  LET es == { avg.e } \cup { ts[j].e : j \in DOMAIN ts }
      lo == CHOOSE x \in es : \A y \in es : x <= y
      lhs == BigMulSmall(BigShl(avg.m, avg.e - lo), Len(ts))
      rhs == BigSum([j \in DOMAIN ts |-> BigShl(ts[j].m, ts[j].e - lo)])
      diff == IF BigLess(lhs, rhs) THEN BigSub(rhs, lhs) ELSE BigSub(lhs, rhs)
  IN avg.cls = "fin" /\ BigLeq(BigShl(diff, 50), lhs)

C14_MinAvgMaxOrdered ==
  calc.op = "statistics" =>
    /\ DLeq(calc.out.min_time_ms, calc.out.avg_time_ms)
    /\ DLeq(calc.out.avg_time_ms, calc.out.max_time_ms)
    /\ IsMeanOf(calc.out.avg_time_ms,
                [j \in DOMAIN calc.arg.us |-> elapsed_ms(calc.arg.us[j])])

(***************************************************************************)
(* C16.  In every BenchmarkResult, gflops is flops / ((avg_time_ms / 1000) *)
(* * 10^9) for the flops stored in the same result, which is the FLOP      *)
(* model's count; a dot product with N = 1,000,000 and an average latency  *)
(* of 1.0 ms has flops = 2,000,000 and gflops = 2.0 exactly.               *)
(***************************************************************************)
C16_ThroughputFormula ==
  calc.op = "statistics" =>
    /\ calc.out.gflops =
         DDiv(DoubleOfSize(calc.out.flops),
              DMul(DDiv(calc.out.avg_time_ms, DoubleOf(1000)),
                   DoubleOf(1000000000)))
    /\ calc.arg.kernel = "dot" /\ calc.arg.size = BigOf(1000000) =>
         calc.out.flops = BigOf(2000000)
    /\ calc.arg.kernel = "gemm" => calc.out.flops = BigShl(BigOf(1), 31)
    /\ (/\ calc.arg.kernel = "dot"
        /\ calc.arg.size = BigOf(1000000)
        /\ calc.out.avg_time_ms = DoubleOf(1)) =>
         calc.out.gflops = DoubleOf(2)

C16_Witness ==
  /\ calc.op = "statistics"
  /\ calc.arg.kernel = "dot"
  /\ calc.arg.us = << 1000 >>
  /\ calc.out.avg_time_ms = DoubleOf(1)
  /\ calc.out.gflops = DoubleOf(2)

(***************************************************************************)
(* C17.  For a fixed positive FLOP count and any two average latencies     *)
(* 0 < a < b, the throughput computed for a is strictly greater than the   *)
(* one computed for b; and throughput is strictly positive whenever the    *)
(* average latency and the FLOP count are strictly positive.               *)
(***************************************************************************)
C17_ThroughputStrictlyMonotone ==
  calc.op = "throughput" =>
    LET f == calc.arg[1]
        a == calc.arg[2]
        b == calc.arg[3]
    IN /\ (f # <<>> /\ DLess(DZero, a) /\ DLess(a, b)) =>
            DLess(calc.out[2], calc.out[1])
       /\ (f # <<>> /\ DLess(DZero, a)) => DLess(DZero, calc.out[1])

(* C17 as amended: the throughput computed for a is greater than or equal
   to the one computed for b (the rounding of the double arithmetic can
   make them equal), and it is strictly positive as stated. *)
C17_ThroughputMonotone ==
  calc.op = "throughput" =>
    LET f == calc.arg[1]
        a == calc.arg[2]
        b == calc.arg[3]
    IN /\ (f # <<>> /\ DLess(DZero, a) /\ DLess(a, b)) =>
            DLeq(calc.out[2], calc.out[1])
       /\ (f # <<>> /\ DLess(DZero, a)) => DLess(DZero, calc.out[1])

C17_Witness ==
  /\ calc.op = "throughput"
  /\ calc.arg[1] = BigShl(BigOf(1), 31)
  /\ DLess(DZero, calc.arg[2])
  /\ DLess(calc.arg[2], calc.arg[3])
  /\ DLess(calc.out[2], calc.out[1])
  /\ DLess(DZero, calc.out[2])

(***************************************************************************)
(* C15.  With cycle count C >= 1 the result of an operation reduces        *)
(* exactly C samples, one per timed kernel invocation and each that        *)
(* invocation's elapsed time: min is the smallest of them, max the         *)
(* largest, avg their sum over C; no warmup invocation is timed.  Samples  *)
(* of 1, 2, 3, 4, 5 ms reduce to min 1, avg 3, max 5.                      *)
(***************************************************************************)
RECURSIVE SumOfVals(_)
SumOfVals(es) == IF es = <<>> THEN 0 ELSE Head(es).val + SumOfVals(Tail(es))

(* The events of the operation whose result is logged at position r. *)
EventsOf(r) == SubSeq(log, LastBefore("begin", r) + 1, r - 1)

C15_AggregatesTimedSamples ==
  /\ config.cycles >= 1 =>
       \A r \in At("result") :
         LET es == EventsOf(r)
             ss == SelectSeq(es, LAMBDA e : e.kind = "sample")
             ts == SelectSeq(es, LAMBDA e : e.kind = "kernel"
                                            /\ e.phase = "timed")
             row == Rows(report)[Cardinality({ q \in At("result") : q <= r })]
         IN /\ Len(ss) = config.cycles
            /\ Len(ts) = config.cycles
            /\ \A j \in DOMAIN ss : ss[j].val = ts[j].ns \div 1000
            /\ \E j \in DOMAIN ss : row.min_time_ms = ss[j].val
            /\ \A j \in DOMAIN ss : row.min_time_ms <= ss[j].val
            /\ \E j \in DOMAIN ss : row.max_time_ms = ss[j].val
            /\ \A j \in DOMAIN ss : ss[j].val <= row.max_time_ms
            /\ row.avg_time_ms = [num |-> SumOfVals(ss), den |-> config.cycles]
  /\ SeqMin(<< 1000, 2000, 3000, 4000, 5000 >>) = 1000
  /\ SeqMax(<< 1000, 2000, 3000, 4000, 5000 >>) = 5000
  /\ SeqSum(<< 1000, 2000, 3000, 4000, 5000 >>) = 3000 * 5

C15_Witness ==
  /\ pc = "exited"
  /\ exitCode = 0
  /\ config.cycles = 2
  /\ config.warmup = 1
  /\ \E r \in At("result") :
       LET es == EventsOf(r)
           row == Rows(report)[Cardinality({ q \in At("result") : q <= r })]
       IN /\ row.max_time_ms = es[Len(es)].val
          /\ row.min_time_ms < row.max_time_ms
          /\ \E j \in DOMAIN es : es[j].kind = "kernel" /\ es[j].phase = "warmup"
                                  /\ es[j].ns >= 1000
  /\ \E r \in At("result") :
       LET es == EventsOf(r)
           row == Rows(report)[Cardinality({ q \in At("result") : q <= r })]
       IN row.min_time_ms = es[Len(es)].val /\ row.min_time_ms < row.max_time_ms

(***************************************************************************)
(* C18.  Measurements never overlap and run in configuration order: the    *)
(* clock has advanced by the whole duration of every eviction and kernel   *)
(* invocation so far (each ran to completion before the next started);     *)
(* every kernel invocation belongs to the one operation that is open, an   *)
(* operation is opened only after the previous one produced its result;    *)
(* the operations of a level start in the order of the level's recognized  *)
(* entries; and level 1 runs before level 2 before level 3.                *)
(***************************************************************************)
RECURSIVE BusyNs(_)
BusyNs(es) == IF es = <<>> THEN 0 ELSE Head(es).ns + BusyNs(Tail(es))

(* The kernels of the operations begun so far at level l, in order. *)
BegunAt(l) ==
  LET bs == SelectSeq(log, LAMBDA e : e.kind = "begin" /\ e.val = l)
  IN [j \in DOMAIN bs |-> bs[j].name]

C18_SequentialInConfigurationOrder ==
  /\ now = BusyNs(log)
  /\ \A j \in Kernels :
       LET b == LastBefore("begin", j)
       IN /\ b > 0
          /\ log[b].name = log[j].name
          /\ LastBefore("result", j) < b
  /\ \A b \in At("begin") :
       LET b0 == LastBefore("begin", b)
       IN b0 > 0 =>
            /\ LastBefore("result", b) > b0
            /\ log[b0].val <= log[b].val
  /\ \A l \in 1 .. 3 :
       LET rec == SelectSeq(LevelFunctions(config, l),
                            LAMBDA n : n \in RecognizedNames(l))
           bg == BegunAt(l)
       IN /\ Len(bg) <= Len(rec)
          /\ \A j \in DOMAIN bg : ResultName(bg[j]) = ReportedName(rec[j])

C18_Witness ==
  /\ pc = "exited"
  /\ exitCode = 0
  /\ config.cycles = 2
  /\ config.warmup = 1
  /\ config.flush_cache
  /\ Len(BegunAt(1)) >= 2
  /\ BegunAt(1)[1] # BegunAt(1)[2]
  /\ Len(BegunAt(2)) >= 1
  /\ Len(BegunAt(3)) >= 1
  /\ now > 0

(***************************************************************************)
(* C19.  Each level's result sequence preserves the order of the level's   *)
(* configured operation list: the i-th result is the i-th recognized       *)
(* entry's, and once the level's loop is over a recognized name listed     *)
(* k times has k results.                                                  *)
(***************************************************************************)
Occurrences(s, x) == Cardinality({ j \in DOMAIN s : s[j] = x })

ResultNames(l) ==
  [j \in DOMAIN LevelResults(l) |-> LevelResults(l)[j].function_name]

C19_ResultsInConfiguredOrder ==
  \A l \in 1 .. 3 :
    LET fs == LevelFunctions(config, l)
        pos == { j \in DOMAIN fs : fs[j] \in RecognizedNames(l) }
        res == ResultNames(l)
        (* the position in fs of the q-th recognized entry *)
        nth(q) == CHOOSE j \in pos :
                    Cardinality({ p \in pos : p <= j }) = q
    IN /\ Len(res) <= Cardinality(pos)
       /\ \A q \in DOMAIN res : res[q] = ReportedName(fs[nth(q)])
       /\ (level > l /\ LevelRan(l)) =>
            \A n \in RecognizedNames(l) :
              Occurrences(res, ReportedName(n)) = Occurrences(fs, n)
       /\ (level > l /\ ~LevelRan(l)) => res = <<>>

C19_Witness ==
  /\ pc = "exited"
  /\ exitCode = 0
  /\ config.cycles >= 1
  /\ config.level1_functions = << "cblas_dscal", "", "cblas_dscal" >>
  /\ ResultNames(1) = << "dscal", "dscal" >>
  /\ ResultNames(3) = << "dgemm" >>

(***************************************************************************)
(* C20.  Name resolution is a case-sensitive exact match against a closed  *)
(* set per level: the j-th entry of a level's list that the loop has       *)
(* dispatched starts the operation of that name if the entry is one of     *)
(* the level's names (cblas_ddot, cblas_daxpy, cblas_dscal at level 1;     *)
(* cblas_dgemv at level 2; cblas_dgemm at level 3) and is reported as      *)
(* unknown otherwise: a different case, another level's name, a bare       *)
(* routine name and the empty string are all unknown.                      *)
(***************************************************************************)
Dispatched(l) ==
  SelectSeq(log, LAMBDA e : e.kind \in {"begin", "warn"} /\ e.val = l)

KernelNamed(n) ==
  CASE n = "cblas_ddot" -> "dot"
    [] n = "cblas_daxpy" -> "axpy"
    [] n = "cblas_dscal" -> "scal"
    [] n = "cblas_dgemv" -> "gemv"
    [] n = "cblas_dgemm" -> "gemm"
    [] OTHER -> "?"

C20_ExactNameMatchPerLevel ==
  /\ \A l \in 1 .. 3 :
       LET fs == LevelFunctions(config, l)
           ds == Dispatched(l)
       IN /\ Len(ds) <= Len(fs)
          /\ \A j \in DOMAIN ds :
               IF fs[j] \in RecognizedNames(l)
                 THEN ds[j].kind = "begin" /\ ds[j].name = KernelNamed(fs[j])
                 ELSE ds[j].kind = "warn" /\ ds[j].name = fs[j]
  /\ \A j \in At("begin") :
       \/ log[j].val = 1 /\ log[j].name \in {"dot", "axpy", "scal"}
       \/ log[j].val = 2 /\ log[j].name = "gemv"
       \/ log[j].val = 3 /\ log[j].name = "gemm"

C20_Witness ==
  /\ pc = "exited"
  /\ exitCode = 0
  /\ \E j \in At("begin") : log[j].val = 1 /\ log[j].name = "dot"
  /\ \E j \in At("warn") : log[j].val = 2 /\ log[j].name = "cblas_ddot"
  /\ \E j \in At("begin") : log[j].val = 2 /\ log[j].name = "gemv"
  /\ \E j \in At("warn") : log[j].val = 3 /\ log[j].name = "CBLAS_DGEMM"
  /\ \E j \in At("warn") : log[j].val = 1 /\ log[j].name = "bogus"
  /\ ~ \E j \in At("begin") : log[j].val = 3

(***************************************************************************)
(* C21.  Dispatch pairs each recognized name with the matching backend     *)
(* routine and FLOP function: for every result, the kernel invoked between *)
(* the operation's begin and its result is the one the configured entry    *)
(* names, the result's flops field is that operation's FLOP function at    *)
(* the level's configured size, threads is the configured thread count     *)
(* and the shape descriptor shows the configured sizes.                    *)
(***************************************************************************)
(* The configured entry behind the result logged at position r: the entry
   of its level's list that is recognized and has as many recognized
   entries up to it as the level has results up to r. *)
EntryOf(r) ==
  LET l == log[LastBefore("begin", r)].val
      fs == LevelFunctions(config, l)
      pos == { j \in DOMAIN fs : fs[j] \in RecognizedNames(l) }
      q == Cardinality({ p \in At("result") :
                           p <= r /\ log[LastBefore("begin", p)].val = l })
  IN fs[CHOOSE j \in pos : Cardinality({ p \in pos : p <= j }) = q]

RowOf(r) == Rows(report)[Cardinality({ q \in At("result") : q <= r })]

C21_DispatchPairsKernelAndFlops ==
  \A r \in At("result") :
    LET l == log[LastBefore("begin", r)].val
        n == EntryOf(r)
        row == RowOf(r)
        es == EventsOf(r)
        sz == LevelSize(config, l).val
    IN /\ \A j \in DOMAIN es :
            es[j].kind = "kernel" => es[j].name = KernelNamed(n)
       /\ row.function_name = ReportedName(n)
       /\ row.threads = config.threads
       /\ row.config_str = (IF l = 1 THEN << sz >> ELSE sz)
       /\ row.flops =
            CASE n = "cblas_ddot" -> flops_dot(BigOf(sz))
              [] n = "cblas_daxpy" -> flops_axpy(BigOf(sz))
              [] n = "cblas_dscal" -> flops_scal(BigOf(sz))
              [] n = "cblas_dgemv" -> flops_gemv(BigOf(sz[1]), BigOf(sz[2]))
              [] n = "cblas_dgemm" ->
                   flops_gemm(BigOf(sz[1]), BigOf(sz[2]), BigOf(sz[3]))

C21_Witness ==
  /\ pc = "exited"
  /\ exitCode = 0
  /\ config.threads = 4
  /\ config.cycles = 2
  /\ Len(Rows(report)) = 5
  /\ \A r \in At("result") : RowOf(r).function_name = ResultName(log[r].name)
  /\ { log[r].name : r \in At("result") }
       = {"dot", "axpy", "scal", "gemv", "gemm"}
  /\ \E r \in At("result") :
       log[r].name = "scal" /\ RowOf(r).flops = BigOf(1000000)
  /\ \E r \in At("result") :
       log[r].name = "gemm" /\ RowOf(r).flops = BigShl(BigOf(1), 31)

(***************************************************************************)
(* C22.  The effective configuration is the defaults overlaid by the file  *)
(* overlaid by the command line: once the overlay is done and for the rest *)
(* of the run, each of threads, cycles and warmup has the command-line     *)
(* value when the option was given, otherwise the file's value when the    *)
(* file sets it, otherwise the built-in default.                           *)
(***************************************************************************)
ExpectedOption(o) ==
  LET file == input.file
  IN IF o \in input.argv.given THEN input.argv[o]
     ELSE IF file.exists /\ file.parses /\ file.tbl.defaults[o].has
            THEN file.tbl.defaults[o].val
            ELSE BenchmarkConfigInit[o]

C22_DefaultsThenFileThenCommandLine ==
  (pc \notin {"load_config", "override"} /\ SizeArgsValid(input.argv.sizes)) =>
    \A o \in Options : config[o] = ExpectedOption(o)

(***************************************************************************)
(* C23.  Whenever a measurement loop has started, the configuration in use *)
(* has warmup >= 0 and the size of the level being measured is strictly    *)
(* positive in every component (N; M and N; M, N and K).                   *)
(***************************************************************************)
C23_ConfigInvariantsAtMeasurement ==
  \A b \in At("begin") :
    LET sz == LevelSize(config, log[b].val).val
    IN /\ config.warmup >= 0
       /\ IF log[b].val = 1 THEN sz > 0
          ELSE \A j \in DOMAIN sz : sz[j] > 0

(***************************************************************************)
(* C24.  Every backend call uses unit stride and row-major, no-transpose   *)
(* leading dimensions equal to the trailing dimension, with buffers sized  *)
(* to match (gemv: lda = N, A of M*N, x of N, y of M; gemm: lda = K,       *)
(* ldb = N, ldc = N, A of M*K, B of K*N, C of M*N; dot, axpy, scal:        *)
(* vectors of N), so every element index the backend addresses lies        *)
(* inside the buffer it belongs to.                                        *)
(***************************************************************************)
(* The largest index of a rows x cols row-major matrix with leading
   dimension ld lies below len; a matrix with no row or no column has no
   element. *)
MatrixInside(rows, cols, ld, len) ==
  (rows > 0 /\ cols > 0) =>
    /\ ld >= cols
    /\ BigLess(BigAdd(BigMul(BigOf(rows - 1), BigOf(ld)), BigOf(cols - 1)),
               len)

VectorInside(n, inc, len) ==
  n > 0 => inc = 1 /\ BigLess(BigOf(n - 1), len)

C24_BackendStaysInsideBuffers ==
  (calc.op = "backend_call" /\ calc.out.called) =>
    LET kn == calc.arg[1]
        s == calc.arg[2]
        a == calc.out.args
        b == calc.out.buffers
    IN CASE kn \in {"dot", "axpy"} ->
              /\ b = << s, s >>
              /\ a.incx = 1 /\ a.incy = 1
              /\ VectorInside(a.n, a.incx, b[1])
              /\ VectorInside(a.n, a.incy, b[2])
         [] kn = "scal" ->
              /\ b = << s >>
              /\ a.incx = 1
              /\ VectorInside(a.n, a.incx, b[1])
         [] kn = "gemv" ->
              /\ a.order = "CblasRowMajor" /\ a.trans = "CblasNoTrans"
              /\ a.incx = 1 /\ a.incy = 1
              /\ a.lda = a.n
              /\ (s[1] >= 0 /\ s[2] >= 0) =>
                   b = << BigMul(BigOf(s[1]), BigOf(s[2])),
                          BigOf(s[2]), BigOf(s[1]) >>
              /\ MatrixInside(a.m, a.n, a.lda, b[1])
              /\ VectorInside(a.n, a.incx, b[2])
              /\ VectorInside(a.m, a.incy, b[3])
         [] OTHER ->
              /\ a.order = "CblasRowMajor"
              /\ a.transa = "CblasNoTrans" /\ a.transb = "CblasNoTrans"
              /\ a.lda = a.k /\ a.ldb = a.n /\ a.ldc = a.n
              /\ (s[1] >= 0 /\ s[2] >= 0 /\ s[3] >= 0) =>
                   b = << BigMul(BigOf(s[1]), BigOf(s[3])),
                          BigMul(BigOf(s[3]), BigOf(s[2])),
                          BigMul(BigOf(s[1]), BigOf(s[2])) >>
              /\ MatrixInside(a.m, a.k, a.lda, b[1])
              /\ MatrixInside(a.k, a.n, a.ldb, b[2])
              /\ MatrixInside(a.m, a.n, a.ldc, b[3])

C24_Witness ==
  /\ calc.op = "backend_call"
  /\ calc.out.called
  /\ calc.arg = << "gemm", << 4, 3, 2 >> >>
  /\ calc.out.args.lda = 2
  /\ calc.out.args.ldb = 3
  /\ calc.out.buffers = << BigOf(8), BigOf(6), BigOf(12) >>

(***************************************************************************)
(* C27.  The dimensions the cblas routine receives are the configured      *)
(* sizes: for the std::size_t N of level 1 and the int sizes of levels 2   *)
(* and 3, every int argument equals the configured value, with no          *)
(* truncation and no change of sign.                                       *)
(***************************************************************************)
C27_BackendReceivesConfiguredSizes ==
  (calc.op = "backend_call" /\ calc.out.called) =>
    LET kn == calc.arg[1]
        s == calc.arg[2]
        a == calc.out.args
    IN CASE kn \in {"dot", "axpy", "scal"} -> a.n >= 0 /\ BigOf(a.n) = s
         [] kn = "gemv" -> a.m = s[1] /\ a.n = s[2]
         [] OTHER -> a.m = s[1] /\ a.n = s[2] /\ a.k = s[3]

(***************************************************************************)
(* C25.  run_all runs a level if and only if the level's size is present   *)
(* and its operation list is non-empty: a level that fails the test has no *)
(* kernel invocation, no warning and no result, whatever the other levels  *)
(* do; a level that passes it has every entry of its list dispatched by    *)
(* the time run_all is past it, whether or not other levels were skipped.  *)
(***************************************************************************)
KernelsOfLevel(l) ==
  CASE l = 1 -> {"dot", "axpy", "scal"}
    [] l = 2 -> {"gemv"}
    [] OTHER -> {"gemm"}

C25_LevelRunsIffSizeAndList ==
  \A l \in 1 .. 3 :
    IF LevelSize(config, l).has /\ LevelFunctions(config, l) # <<>>
      THEN level > l => Len(Dispatched(l)) = Len(LevelFunctions(config, l))
      ELSE /\ Dispatched(l) = <<>>
           /\ \A j \in Kernels : log[j].name \notin KernelsOfLevel(l)
           /\ LevelResults(l) = <<>>

C25_Witness ==
  /\ pc = "exited"
  /\ exitCode = 0
  /\ config.cycles = 2
  /\ config.level2_size.has
  /\ config.level2_functions = <<>>
  /\ Len(report.level1_results) = 1
  /\ report.level2_results = <<>>
  /\ Len(report.level3_results) = 1
  /\ \E j \in Kernels : log[j].name = "axpy"
  /\ \E j \in Kernels : log[j].name = "gemm"

(***************************************************************************)
(* C26.  The warmup phase is re-run for every timed cycle: an operation    *)
(* that has produced its result with cycle count C and warmup count W made *)
(* C calls of its benchmark function, each W warmup invocations followed   *)
(* by one timed invocation, so C * (W + 1) kernel invocations in all and,  *)
(* with flushing enabled, C * (W + 1) evictions (none otherwise).          *)
(***************************************************************************)
(* The events of the c-th call (1 .. C) of the operation whose result is at
   position r: those after the (c-1)-th sample, up to the c-th sample. *)
CallEvents(r, c) ==
  LET es == EventsOf(r)
      ss == { j \in DOMAIN es : es[j].kind = "sample" }
      upto(q) == IF q = 0 THEN 0
                 ELSE CHOOSE j \in ss : Cardinality({ p \in ss : p <= j }) = q
  IN SubSeq(es, upto(c - 1) + 1, upto(c))

PhasesOf(es) ==
  LET ks == SelectSeq(es, LAMBDA e : e.kind = "kernel")
  IN [j \in DOMAIN ks |-> ks[j].phase]

C26_WarmupRerunEveryCycle ==
  \A r \in At("result") :
    LET es == EventsOf(r)
        C == config.cycles
        W == config.warmup
        flushes == SelectSeq(es, LAMBDA e : e.kind = "flush")
    IN /\ Len(PhasesOf(es)) = C * (W + 1)
       /\ Len(flushes) = IF config.flush_cache THEN C * (W + 1) ELSE 0
       /\ Len(SelectSeq(es, LAMBDA e : e.kind = "sample")) = C
       /\ \A c \in 1 .. C :
            PhasesOf(CallEvents(r, c)) =
              [j \in 1 .. W + 1 |-> IF j <= W THEN "warmup" ELSE "timed"]

C26_Witness ==
  /\ pc = "exited"
  /\ exitCode = 0
  /\ config.cycles = 2
  /\ config.warmup = 1
  /\ config.flush_cache
  /\ \E r \in At("result") :
       /\ log[r].name = "gemv"
       /\ PhasesOf(EventsOf(r)) = << "warmup", "timed", "warmup", "timed" >>
       /\ Len(SelectSeq(EventsOf(r), LAMBDA e : e.kind = "flush")) = 4

(***************************************************************************)
(* C28.  In one call of a benchmark function the number of warmup          *)
(* invocations is at most max(warmup, 0): a negative warmup value does not *)
(* become a positive iteration count.                                      *)
(***************************************************************************)
C28_NegativeWarmupRunsNothing ==
  \A j \in WarmupKernels :
    LET b == LastBefore("begin", j)
        s == LastBefore("sample", j)
        start == IF b < s THEN s ELSE b
        done == { p \in WarmupKernels : start < p /\ p <= j }
    IN Cardinality(done) <= (IF config.warmup < 0 THEN 0 ELSE config.warmup)

(***************************************************************************)
(* C29.  When main validates that at least one benchmark is configured,    *)
(* all three level sizes have a value, whether the file was parsed, failed *)
(* to parse or is absent and whatever the command line overlays; the "No   *)
(* benchmark sizes specified" exit is never taken.                         *)
(***************************************************************************)
C29_SizesAlwaysPresent ==
  /\ pc = "validate" =>
       /\ config.level1_size.has
       /\ config.level2_size.has
       /\ config.level3_size.has
  /\ \A j \in At("error") : log[j].name # "no benchmark sizes"

C29_Witness ==
  /\ pc = "validate"
  /\ input.file.exists
  /\ ~input.file.parses
  /\ At("warn_config") # {}
  /\ config.level1_size = Some(1000000)
  /\ config.level3_size = Some(<< 1024, 1024, 1024 >>)

====
